---- MODULE Spec2Model ----
(***************************************************************************)
(* Model of the data-preparation pipeline of src/src/data_preparation.py   *)
(* (load_raw_datasets, clean_datasets, handle_missing_values,              *)
(* convert_data_types, merge_datasets, normalize_columns, load_data,       *)
(* validate_final_dataset and the __main__ block).                         *)
(*                                                                         *)
(* A table (pandas DataFrame) is a record                                  *)
(*   [cols  : sequence of column names,                                    *)
(*    dtype : column name -> "num" | "obj",                                *)
(*    rows  : sequence of rows, a row being column name -> cell].          *)
(* A cell is a record [k, n, d, s]: k = "num" is the rational n/d,         *)
(* k = "str" is the text s, k = "nan" is the missing marker NaN, and       *)
(* k = "f64" is the binary64 number n * 2^d that MinMaxScaler computes,    *)
(* n being its 53-bit mantissa (a sequence of limbs) or zero.              *)
(***************************************************************************)
EXTENDS Integers, Sequences, FiniteSets, TLC

VARIABLES fs, cwd, pc, datasets, reduced, df_merged, ret, exc, ran, rowlog, valid,
          previous

vars == <<fs, cwd, pc, datasets, reduced, df_merged, ret, exc, ran, rowlog, valid,
          previous>>

(***************************************************************************)
(* Generic helpers.                                                        *)
(***************************************************************************)
Range(s) == {s[i] : i \in DOMAIN s}

RECURSIVE SelectIdx(_, _, _)
\* the subsequence of s at the indices i (in order) for which Keep(i) holds
SelectIdx(s, Keep(_), i) ==
    IF i > Len(s) THEN << >>
    ELSE (IF Keep(i) THEN <<s[i]>> ELSE << >>) \o SelectIdx(s, Keep, i + 1)

RECURSIVE Flatten(_)
Flatten(ss) == IF ss = << >> THEN << >> ELSE Head(ss) \o Flatten(Tail(ss))

Abs(x) == IF x < 0 THEN -x ELSE x

RECURSIVE GCD(_, _)
GCD(a, b) == IF b = 0 THEN a ELSE GCD(b, a % b)

(***************************************************************************)
(* Cells.                                                                  *)
(***************************************************************************)
NaN == [k |-> "nan", n |-> 0, d |-> 1, s |-> ""]

Str(t) == [k |-> "str", n |-> 0, d |-> 1, s |-> t]

\* the number n/d (d # 0) in lowest terms with a positive denominator
Rat(n, d) ==
    LET g  == GCD(Abs(n), Abs(d))
        sg == IF d < 0 THEN -1 ELSE 1
    IN  [k |-> "num", n |-> sg * (n \div g), d |-> sg * (d \div g), s |-> ""]

Num(n) == Rat(n, 1)

IsNaN(c) == c.k = "nan"
IsNum(c) == c.k \in {"num", "f64"}
IsStr(c) == c.k = "str"

RatAdd(a, b) == Rat(a.n * b.d + b.n * a.d, a.d * b.d)
RatSub(a, b) == Rat(a.n * b.d - b.n * a.d, a.d * b.d)
RatLeq(a, b) == a.n * b.d <= b.n * a.d
\* a / b for b # 0
RatDiv(a, b) == Rat(a.n * b.d, a.d * b.n)

(***************************************************************************)
(* Text of a file field -> number.  The tokens that occur in the modelled  *)
(* files; every other token is not a number.                               *)
(***************************************************************************)
NumTokens == {"0", "1", "2", "3", "5", "30", "50", "100", "200", "300", "500", "2020"}

TokenValue(t) ==
    CASE t = "0" -> 0 [] t = "1" -> 1 [] t = "2" -> 2 [] t = "3" -> 3
      [] t = "5" -> 5 [] t = "30" -> 30 [] t = "50" -> 50
      [] t = "100" -> 100 [] t = "200" -> 200 [] t = "300" -> 300
      [] t = "500" -> 500 [] t = "2020" -> 2020

\* pd.to_numeric(x, errors='coerce') on one cell
ToNumeric(c) ==
    IF IsStr(c)
    THEN (IF c.s \in NumTokens THEN Num(TokenValue(c.s)) ELSE NaN)
    ELSE c

(***************************************************************************)
(* Tables.                                                                 *)
(***************************************************************************)
Names == {"expenditure", "salary", "chronic_absence", "test_scores", "socioeconomic"}

\* the file each dataset is read from (load_raw_datasets)
FileName(name) ==
    CASE name = "expenditure" -> "Expenditure_Data.txt"
      [] name = "salary" -> "Salary_Data.txt"
      [] name = "chronic_absence" -> "Chronic_Absent.txt"
      [] name = "test_scores" -> "Test_Score_Results.txt"
      [] name = "socioeconomic" -> "Subgroup_Data.txt"

Table(cols, dtype, rows) == [cols |-> cols, dtype |-> dtype, rows |-> rows]

EmptyTable == Table(<< >>, [c \in {} |-> "obj"], << >>)

ColSet(t) == Range(t.cols)

NRows(t) == Len(t.rows)

Column(t, c) == [i \in DOMAIN t.rows |-> t.rows[i][c]]

\* df[cols]: the listed columns, in the listed order
Project(t, cols) ==
    Table(cols,
          [c \in Range(cols) |-> t.dtype[c]],
          [i \in DOMAIN t.rows |-> [c \in Range(cols) |-> t.rows[i][c]]])

\* df.drop(cols, axis=1): the other columns, in their order
DropCols(t, cols) ==
    Project(t, SelectIdx(t.cols, LAMBDA i : t.cols[i] \notin cols, 1))

(***************************************************************************)
(* pd.read_csv.  A file is [exists, parses, header, rows]; the rows map    *)
(* each header name to the text of the field ("" is an empty field).       *)
(***************************************************************************)
\* str.upper() of a column name
Upper(c) ==
    CASE c = "cdscode" -> "CDSCODE"
      [] c = "persd" -> "PERSD"
      [] c = "dsal" -> "DSAL"
      [] OTHER -> c

\* dtype inference of read_csv for one column of text fields
InferDtype(fields) ==
    IF fields # << >> /\ \A i \in DOMAIN fields : fields[i] \in NumTokens \cup {""}
    THEN "num" ELSE "obj"

ParseField(tok, dtype) ==
    IF tok = "" THEN NaN
    ELSE IF dtype = "num" THEN Num(TokenValue(tok)) ELSE Str(tok)

\* the result of one read: err = "" and the table, or the exception raised
Ok(t) == [err |-> "", table |-> t]
Raise(e) == [err |-> e, table |-> EmptyTable]

\* ReadCsv with an absent file read as a table without columns or rows
ReadCsv_absent_as_empty(f, nfooter, usecols) ==
    IF ~f.exists THEN Ok(EmptyTable)
    ELSE IF ~f.parses THEN Raise("ParserError")
    ELSE IF usecols # {} /\ ~(usecols \subseteq Range(f.header)) THEN Raise("ValueError")
    ELSE
      LET cols  == IF usecols = {} THEN f.header
                   ELSE SelectIdx(f.header, LAMBDA i : f.header[i] \in usecols, 1)
          nkeep == IF Len(f.rows) > nfooter THEN Len(f.rows) - nfooter ELSE 0
          data  == SubSeq(f.rows, 1, nkeep)
          dt    == [c \in Range(cols) |-> InferDtype([i \in DOMAIN data |-> data[i][c]])]
      IN  Ok(Table(cols, dt,
                   [i \in DOMAIN data |-> [c \in Range(cols) |-> ParseField(data[i][c], dt[c])]]))

ReadCsv(f, nfooter, usecols) ==
    IF ~f.exists THEN Raise("FileNotFoundError")
    ELSE IF ~f.parses THEN Raise("ParserError")
    ELSE IF usecols # {} /\ ~(usecols \subseteq Range(f.header)) THEN Raise("ValueError")
    ELSE
      LET cols  == IF usecols = {} THEN f.header
                   ELSE SelectIdx(f.header, LAMBDA i : f.header[i] \in usecols, 1)
          nkeep == IF Len(f.rows) > nfooter THEN Len(f.rows) - nfooter ELSE 0
          data  == SubSeq(f.rows, 1, nkeep)
          dt    == [c \in Range(cols) |-> InferDtype([i \in DOMAIN data |-> data[i][c]])]
      IN  Ok(Table(cols, dt,
                   [i \in DOMAIN data |-> [c \in Range(cols) |-> ParseField(data[i][c], dt[c])]]))

\* df.columns = df.columns.str.upper()
UpperColumns(t) ==
    LET old(C) == CHOOSE c \in ColSet(t) : Upper(c) = C
        up     == {Upper(c) : c \in ColSet(t)}
    IN  Table([i \in DOMAIN t.cols |-> Upper(t.cols[i])],
              [C \in up |-> t.dtype[old(C)]],
              [i \in DOMAIN t.rows |-> [C \in up |-> t.rows[i][old(C)]]])

(***************************************************************************)
(* load_raw_datasets.  fs.start is the working directory at entry,         *)
(* fs.dataDir tells whether it has a 'data' subdirectory, fs.file are the  *)
(* five files at the place the reads look for them.  The result is the     *)
(* exception raised ("" for none), the tables and the working directory    *)
(* afterwards.                                                             *)
(***************************************************************************)
\* skipfooter=5 of the expenditure and salary reads
skipfooter == 5

ReadOrder == <<"expenditure", "salary", "chronic_absence", "test_scores", "socioeconomic">>

ReadOne(files, name) ==
    CASE name \in {"expenditure", "salary"} -> ReadCsv(files[name], skipfooter, {})
      [] name = "socioeconomic" -> ReadCsv(files[name], 0, {"CDSCODE", "PERSD"})
      [] OTHER -> ReadCsv(files[name], 0, {})

\* os.path: the parent directory
Parent(dir) == IF dir = << >> THEN << >> ELSE SubSeq(dir, 1, Len(dir) - 1)

\* the directory that holds the five files: the 'data' subdirectory of
\* world.start, or else the 'data' directory next to world.start
DataDirOf(world) ==
    IF world.dataDir THEN Append(world.start, "data")
    ELSE Append(Parent(world.start), "data")

\* cwd_at_exit leaving the process in the parent of the directory at entry
cwd_at_exit_parent(original_dir, inside, data_dir, raised) ==
    IF data_dir = "" THEN Parent(original_dir) ELSE inside

\* cwd_at_exit with the restore missing from the except handlers
cwd_at_exit_norestore(original_dir, inside, data_dir, raised) ==
    IF data_dir = "" /\ ~raised THEN original_dir ELSE inside

\* the working directory when load_raw_datasets exits, by return or by raise:
\* every exit path runs "if data_dir == '': os.chdir(original_dir)"
cwd_at_exit(original_dir, inside, data_dir, raised) ==
    IF data_dir = "" THEN original_dir ELSE inside

\* load_raw_datasets going on with the tables it could read
load_raw_datasets_partial(world, dir) ==
    LET reads == [n \in Names |-> ReadOne(world.file, n)]
    IN  [err |-> "",
         tables |-> [n \in Names |-> UpperColumns(reads[n].table)],
         cwd |-> dir]

load_raw_datasets(world, dir) ==
    LET original_dir == dir
        chdir_ok     == Append(dir, "data") = DataDirOf(world)
        data_dir     == IF chdir_ok THEN "" ELSE "../data/"
        inside       == IF chdir_ok THEN Append(dir, "data") ELSE dir
        \* where data_dir + file name points: the working directory after
        \* chdir('data'), or ../data/ seen from dir
        location     == IF chdir_ok THEN inside ELSE Append(Parent(dir), "data")
        reads        == [n \in Names |->
                            IF location = DataDirOf(world) THEN ReadOne(world.file, n)
                            ELSE Raise("FileNotFoundError")]
        failed       == {i \in DOMAIN ReadOrder : reads[ReadOrder[i]].err # ""}
        first        == CHOOSE i \in failed : \A j \in failed : i <= j
        after        == cwd_at_exit(original_dir, inside, data_dir, failed # {})
    IN  IF failed # {}
        THEN [err |-> reads[ReadOrder[first]].err,
              tables |-> [n \in Names |-> EmptyTable],
              cwd |-> after]
        ELSE [err |-> "",
              tables |-> [n \in Names |-> UpperColumns(reads[n].table)],
              cwd |-> after]

(***************************************************************************)
(* clean_datasets.                                                         *)
(***************************************************************************)
ExpenditureDropList == {"SARCYEAR", "C", "D", "S", "STEXP"}
SalaryCols == <<"CDSCODE", "BTCHSAL", "MTCHSAL", "HTCHSAL">>
TestScoreCols == <<"CDSCODE", "SELA_Y2", "SMATH_Y2", "DELA_Y2", "DMATH_Y2">>
ChronicAbsenceCols == <<"CDSCODE", "RALL", "REL", "RSED">>

\* df.replace(olds, new) over every cell of every column
Replace(t, Old(_), new) ==
    [t EXCEPT !.rows = [i \in DOMAIN t.rows |->
        [c \in ColSet(t) |-> IF Old(t.rows[i][c]) THEN new ELSE t.rows[i][c]]]]

\* a cell equal to one of the strings '--', '0' (a number 0 is not the string '0')
IsPlaceholder(c) == IsStr(c) /\ c.s \in {"--", "0"}

clean_datasets(d) ==
    IF \/ ~(ExpenditureDropList \subseteq ColSet(d["expenditure"]))
       \/ ~(Range(SalaryCols) \subseteq ColSet(d["salary"]))
       \/ ~(Range(TestScoreCols) \subseteq ColSet(d["test_scores"]))
       \/ ~(Range(ChronicAbsenceCols) \subseteq ColSet(d["chronic_absence"]))
    THEN [err |-> "KeyError", tables |-> d]
    ELSE [err |-> "",
          tables |-> [d EXCEPT
              !["expenditure"] = DropCols(@, ExpenditureDropList),
              !["salary"] = Project(@, SalaryCols),
              !["test_scores"] = Replace(Project(@, TestScoreCols), IsPlaceholder, NaN),
              !["chronic_absence"] = Project(@, ChronicAbsenceCols)]]

(***************************************************************************)
(* handle_missing_values.                                                  *)
(***************************************************************************)
RECURSIVE SumCells(_)
\* the sum of the numbers of a sequence of cells (other cells are skipped)
SumCells(cs) ==
    IF cs = << >> THEN Num(0)
    ELSE IF IsNum(Head(cs)) THEN RatAdd(Head(cs), SumCells(Tail(cs)))
    ELSE SumCells(Tail(cs))

\* Mean dividing by the number of all cells, the missing ones included
Mean_over_all_cells(cs) ==
    IF SelectSeq(cs, IsNum) = << >> THEN NaN ELSE RatDiv(SumCells(cs), Num(Len(cs)))

\* Series.mean(): the mean of the non-missing values, NaN when there are none
Mean(cs) ==
    LET present == SelectSeq(cs, IsNum)
    IN  IF present = << >> THEN NaN ELSE RatDiv(SumCells(present), Num(Len(present)))

\* df.fillna(df.mean(numeric_only=True)): in every column of numeric dtype
\* the missing cells take the column mean
FillNaWithMean(t) ==
    LET mean == [c \in ColSet(t) |-> Mean(Column(t, c))]
    IN  [t EXCEPT !.rows = [i \in DOMAIN t.rows |->
            [c \in ColSet(t) |->
                IF t.dtype[c] = "num" /\ IsNaN(t.rows[i][c]) THEN mean[c]
                ELSE t.rows[i][c]]]]

\* handle_missing_values putting 0 into the missing cells of the test-score
\* and chronic-absence tables as well
handle_missing_values_all_tables(d) ==
    [err |-> "",
     tables |-> [d EXCEPT
         !["socioeconomic"] = Replace(@, IsNaN, Num(0)),
         !["test_scores"] = Replace(@, IsNaN, Num(0)),
         !["chronic_absence"] = Replace(@, IsNaN, Num(0)),
         !["expenditure"] = FillNaWithMean(@),
         !["salary"] = FillNaWithMean(@)]]

\* handle_missing_values without the replacement in the socioeconomic table
handle_missing_values_keep_persd(d) ==
    [err |-> "",
     tables |-> [d EXCEPT
         !["expenditure"] = FillNaWithMean(@),
         !["salary"] = FillNaWithMean(@)]]

handle_missing_values(d) ==
    [err |-> "",
     tables |-> [d EXCEPT
         !["socioeconomic"] = Replace(@, IsNaN, Num(0)),
         !["expenditure"] = FillNaWithMean(@),
         !["salary"] = FillNaWithMean(@)]]

(***************************************************************************)
(* convert_data_types.                                                     *)
(***************************************************************************)
NumericCols(name) ==
    CASE name = "test_scores" -> {"SELA_Y2", "SMATH_Y2", "DELA_Y2", "DMATH_Y2"}
      [] name = "salary" -> {"BTCHSAL", "MTCHSAL", "HTCHSAL"}
      [] name = "chronic_absence" -> {"RALL", "REL", "RSED"}
      [] name = "socioeconomic" -> {"PERSD"}
      [] name = "expenditure" -> {"DSAL", "STSAL"}

\* df[col] = pd.to_numeric(df[col], errors='coerce') for each col of cols
CoerceCols(t, cols) ==
    Table(t.cols,
          [c \in ColSet(t) |-> IF c \in cols THEN "num" ELSE t.dtype[c]],
          [i \in DOMAIN t.rows |->
              [c \in ColSet(t) |-> IF c \in cols THEN ToNumeric(t.rows[i][c])
                                   ELSE t.rows[i][c]]])

convert_data_types(d) ==
    IF \E n \in Names : ~(NumericCols(n) \subseteq ColSet(d[n]))
    THEN [err |-> "KeyError", tables |-> d]
    ELSE [err |-> "", tables |-> [n \in Names |-> CoerceCols(d[n], NumericCols(n))]]

(***************************************************************************)
(* merge_datasets.                                                         *)
(***************************************************************************)
HasNaN(row) == \E c \in DOMAIN row : IsNaN(row[c])

\* the key column holds text only (strings, possibly with NaN)
TextKeys(t) ==
    /\ \E i \in DOMAIN t.rows : IsStr(t.rows[i]["CDSCODE"])
    /\ \A i \in DOMAIN t.rows : ~IsNum(t.rows[i]["CDSCODE"])

\* merge refuses an object key column of text against a numeric key column
KeyDtypesClash(l, r) ==
    \/ l.dtype["CDSCODE"] = "obj" /\ r.dtype["CDSCODE"] = "num"
         /\ TextKeys(l) /\ r.rows # << >>
    \/ l.dtype["CDSCODE"] = "num" /\ r.dtype["CDSCODE"] = "obj"
         /\ TextKeys(r) /\ l.rows # << >>

\* InnerJoinRows without the key condition (how='cross')
InnerJoinRows_cross(l, r, cols) ==
    LET pair(i, j) == [c \in Range(cols) |->
                          IF c \in ColSet(l) THEN l.rows[i][c] ELSE r.rows[j][c]]
    IN  Flatten([i \in DOMAIN l.rows |-> [j \in DOMAIN r.rows |-> pair(i, j)]])

\* InnerJoinRows pairing a row of l with the first matching row of r only
InnerJoinRows_first_match(l, r, cols) ==
    LET pair(i, j) == [c \in Range(cols) |->
                          IF c \in ColSet(l) THEN l.rows[i][c] ELSE r.rows[j][c]]
        js(i)      == SelectIdx([j \in DOMAIN r.rows |-> j],
                          LAMBDA j : r.rows[j]["CDSCODE"] = l.rows[i]["CDSCODE"], 1)
    IN  Flatten([i \in DOMAIN l.rows |->
                    IF js(i) = << >> THEN << >> ELSE <<pair(i, js(i)[1])>>])

\* the rows of l.merge(r, on='CDSCODE', how='inner'): for each row of l in
\* order, one row per row of r (in order) with an equal key; NaN keys match
\* each other
InnerJoinRows(l, r, cols) ==
    LET pair(i, j) == [c \in Range(cols) |->
                          IF c \in ColSet(l) THEN l.rows[i][c] ELSE r.rows[j][c]]
        js(i)      == SelectIdx([j \in DOMAIN r.rows |-> j],
                          LAMBDA j : r.rows[j]["CDSCODE"] = l.rows[i]["CDSCODE"], 1)
    IN  Flatten([i \in DOMAIN l.rows |->
                    [k \in DOMAIN js(i) |-> pair(i, js(i)[k])]])

\* Merge with how='outer': the unmatched rows of both sides are kept, the
\* columns of the other side missing
Merge_outer(l, r) ==
    IF "CDSCODE" \notin ColSet(l) \/ "CDSCODE" \notin ColSet(r) THEN Raise("KeyError")
    ELSE IF KeyDtypesClash(l, r) THEN Raise("ValueError")
    ELSE
      LET rcols == SelectIdx(r.cols, LAMBDA i : r.cols[i] \notin ColSet(l), 1)
          cols  == l.cols \o rcols
          lkeys == {l.rows[i]["CDSCODE"] : i \in DOMAIN l.rows}
          rkeys == {r.rows[j]["CDSCODE"] : j \in DOMAIN r.rows}
          lonly == SelectSeq(l.rows, LAMBDA row : row["CDSCODE"] \notin rkeys)
          ronly == SelectSeq(r.rows, LAMBDA row : row["CDSCODE"] \notin lkeys)
      IN  Ok(Table(cols,
                   [c \in Range(cols) |-> IF c \in ColSet(l) THEN l.dtype[c] ELSE r.dtype[c]],
                   InnerJoinRows(l, r, cols)
                     \o [i \in DOMAIN lonly |->
                           [c \in Range(cols) |-> IF c \in ColSet(l) THEN lonly[i][c] ELSE NaN]]
                     \o [j \in DOMAIN ronly |->
                           [c \in Range(cols) |-> IF c \in ColSet(r) THEN ronly[j][c] ELSE NaN]]))

Merge(l, r) ==
    IF "CDSCODE" \notin ColSet(l) \/ "CDSCODE" \notin ColSet(r) THEN Raise("KeyError")
    ELSE IF KeyDtypesClash(l, r) THEN Raise("ValueError")
    ELSE
      LET rcols == SelectIdx(r.cols, LAMBDA i : r.cols[i] \notin ColSet(l), 1)
          cols  == l.cols \o rcols
      IN  Ok(Table(cols,
                   [c \in Range(cols) |-> IF c \in ColSet(l) THEN l.dtype[c] ELSE r.dtype[c]],
                   InnerJoinRows(l, r, cols)))

\* DropNa keeping every row
DropNa_keep_all(t) == t

\* DropNa looking at the identifier only
DropNa_key_only(t) ==
    [t EXCEPT !.rows = SelectSeq(t.rows, LAMBDA row : ~IsNaN(row["CDSCODE"]))]

\* df.dropna(): the rows without a missing value, in order
DropNa(t) == [t EXCEPT !.rows = SelectSeq(t.rows, LAMBDA row : ~HasNaN(row))]

MergeOrder == <<"salary", "test_scores", "socioeconomic", "chronic_absence">>

RECURSIVE MergeFrom(_, _, _, _)
\* the joins from the k-th on, applied to the running table acc; log holds
\* the row counts of the running table so far
MergeFrom(d, acc, k, log) ==
    IF k > Len(MergeOrder) THEN [err |-> "", table |-> acc, log |-> log]
    ELSE LET m == Merge(acc, d[MergeOrder[k]])
         IN  IF m.err # "" THEN [err |-> m.err, table |-> EmptyTable, log |-> log]
             ELSE MergeFrom(d, m.table, k + 1, Append(log, NRows(m.table)))

\* the result carries the logged row counts: the expenditure table, the
\* running table after each join, and the table after dropna; rows_dropped
\* is the count of line 237, logged at line 239
merge_datasets(d) ==
    LET joined == MergeFrom(d, d["expenditure"], 1, <<NRows(d["expenditure"])>>)
        initial_row_count == NRows(joined.table)
        final  == DropNa(joined.table)
    IN  IF joined.err # "" THEN joined
        ELSE [err |-> "", table |-> final, log |-> Append(joined.log, NRows(final)),
              rows_dropped |-> initial_row_count - NRows(final)]

RECURSIVE JoinFrom(_, _, _, _)
\* the inner joins with the tables order[k], order[k+1], ... applied to the
\* running table acc
JoinFrom(d, acc, order, k) ==
    IF k > Len(order) THEN Ok(acc)
    ELSE LET m == Merge(acc, d[order[k]])
         IN  IF m.err # "" THEN m ELSE JoinFrom(d, m.table, order, k + 1)

\* merge_datasets with the five tables joined in the given order: the
\* joins of lines 216-225 with the table names permuted, then the dropna
merge_in_order(d, order) ==
    LET joined == JoinFrom(d, d[order[1]], order, 2)
    IN  IF joined.err # "" THEN joined ELSE Ok(DropNa(joined.table))

(***************************************************************************)
(* normalize_columns (MinMaxScaler.fit_transform).                         *)
(***************************************************************************)
MinCell(cs) == CHOOSE x \in Range(cs) : \A y \in Range(cs) : RatLeq(x, y)
MaxCell(cs) == CHOOSE x \in Range(cs) : \A y \in Range(cs) : RatLeq(y, x)

(***************************************************************************)
(* Naturals beyond the range of the model checker's integers: the          *)
(* sequence of limbs (digits to the base LimbBase), least significant      *)
(* first, without a most significant zero limb; << >> is zero.             *)
(***************************************************************************)
LimbBits == 15
LimbBase == 32768

RECURSIVE Pow2(_)
Pow2(k) == IF k = 0 THEN 1 ELSE 2 * Pow2(k - 1)

RECURSIVE BitLen(_)
\* the number of binary digits of n
BitLen(n) == IF n = 0 THEN 0 ELSE 1 + BitLen(n \div 2)

RECURSIVE BigTrim(_)
BigTrim(a) ==
    IF a # << >> /\ a[Len(a)] = 0 THEN BigTrim(SubSeq(a, 1, Len(a) - 1)) ELSE a

RECURSIVE BigOfInt(_)
BigOfInt(n) == IF n = 0 THEN << >> ELSE <<n % LimbBase>> \o BigOfInt(n \div LimbBase)

RECURSIVE BigMulAdd(_, _, _)
\* a * m + c, for 0 < m < LimbBase and 0 <= c < LimbBase
BigMulAdd(a, m, c) ==
    IF a = << >> THEN (IF c = 0 THEN << >> ELSE <<c>>)
    ELSE LET p == Head(a) * m + c
         IN  <<p % LimbBase>> \o BigMulAdd(Tail(a), m, p \div LimbBase)

RECURSIVE BigDivMod(_, _)
\* the quotient and the remainder of a by d, for 0 < d < LimbBase
BigDivMod(a, d) ==
    IF a = << >> THEN [q |-> << >>, r |-> 0]
    ELSE LET hi  == BigDivMod(Tail(a), d)
             cur == hi.r * LimbBase + Head(a)
         IN  [q |-> BigTrim(<<cur \div d>> \o hi.q), r |-> cur % d]

RECURSIVE BigSubBorrow(_, _, _)
BigSubBorrow(a, b, borrow) ==
    IF a = << >> THEN << >>
    ELSE LET t == Head(a) - (IF b = << >> THEN 0 ELSE Head(b)) - borrow
         IN  <<IF t < 0 THEN t + LimbBase ELSE t>>
                 \o BigSubBorrow(Tail(a), IF b = << >> THEN << >> ELSE Tail(b),
                                 IF t < 0 THEN 1 ELSE 0)

\* a - b, for a >= b
BigSub(a, b) == BigTrim(BigSubBorrow(a, b, 0))

BigBitLen(a) == IF a = << >> THEN 0 ELSE (Len(a) - 1) * LimbBits + BitLen(a[Len(a)])

\* a * 2^k
BigShl(a, k) ==
    IF a = << >> THEN << >>
    ELSE [i \in 1..(k \div LimbBits) |-> 0] \o BigMulAdd(a, Pow2(k % LimbBits), 0)

BigIsOdd(a) == a # << >> /\ a[1] % 2 = 1

(***************************************************************************)
(* binary64 arithmetic (numpy float64), round to nearest, ties to even,    *)
(* on numbers >= 0.  F64(m, e) is m * 2^e with 2^52 <= m < 2^53.           *)
(***************************************************************************)
MantissaBits == 53

F64(m, e) == [k |-> "f64", n |-> m, d |-> e, s |-> ""]

F64Zero == F64(<< >>, 0)

F64One == F64(BigShl(<<1>>, MantissaBits - 1), 1 - MantissaBits)

\* q (of MantissaBits bits, with the exponent e) or, when up, the next
\* binary64 number
F64Next(q, e, up) ==
    LET m == IF up THEN BigMulAdd(q, 1, 1) ELSE q
    IN  IF BigBitLen(m) > MantissaBits THEN F64(BigDivMod(m, 2).q, e + 1) ELSE F64(m, e)

\* the binary64 number nearest to a * 2^e (a of at most MantissaBits +
\* LimbBits - 1 bits)
F64Round(a, e) ==
    LET len == BigBitLen(a)
        k   == len - MantissaBits
        qr  == BigDivMod(a, Pow2(k))
    IN  IF a = << >> THEN F64Zero
        ELSE IF k <= 0 THEN F64(BigShl(a, -k), e + k)
        ELSE F64Next(qr.q, e + k,
                     2 * qr.r > Pow2(k) \/ (2 * qr.r = Pow2(k) /\ BigIsOdd(qr.q)))

\* 1.0 / r for a whole number r, 0 < r < LimbBase / 2
F64Recip(r) ==
    LET j  == BitLen(r)
        qr == BigDivMod(BigShl(<<1>>, MantissaBits - 1 + j), r)
    IN  F64Next(qr.q, -(MantissaBits - 1 + j),
                2 * qr.r > r \/ (2 * qr.r = r /\ BigIsOdd(qr.q)))

\* x * f for a whole number x, 0 <= x < LimbBase / 2, and a binary64 number f
F64MulInt(x, f) == IF x = 0 THEN F64Zero ELSE F64Round(BigMulAdd(f.n, x, 0), f.d)

\* a - b for binary64 numbers a >= b >= 0
F64Sub(a, b) ==
    IF b = F64Zero THEN a
    ELSE F64Round(BigSub(BigShl(a.n, a.d - b.d), b.n), b.d)

\* MinMaxScale without the replacement of a zero range: 1 / 0 is infinite
\* and the result of a constant column is not a number
MinMaxScale_zero_range(x, lo, hi) ==
    IF hi.n - lo.n = 0 THEN NaN
    ELSE F64Sub(F64MulInt(x.n, F64Recip(hi.n - lo.n)), F64MulInt(lo.n, F64Recip(hi.n - lo.n)))

\* MinMaxScaler on one cell x of a column with minimum lo and maximum hi,
\* whole numbers: scale_ = 1 / (max - min), a zero range replaced by 1;
\* min_ = 0 - min * scale_; the result is x * scale_ + min_
MinMaxScale(x, lo, hi) ==
    LET data_range == hi.n - lo.n
        scale_     == IF data_range = 0 THEN F64One ELSE F64Recip(data_range)
    IN  F64Sub(F64MulInt(x.n, scale_), F64MulInt(lo.n, scale_))

columns_to_normalize == {"DSAL", "STSAL", "BTCHSAL", "MTCHSAL", "HTCHSAL"}

\* normalize_columns rescaling PERSD as well
normalize_columns_and_persd(df, columns) ==
    IF ~(columns \subseteq ColSet(df)) THEN Raise("KeyError")
    ELSE IF df.rows = << >> THEN Raise("ValueError")
    ELSE
      LET scaled == columns \cup {"PERSD"}
          lo == [c \in scaled |-> MinCell(Column(df, c))]
          hi == [c \in scaled |-> MaxCell(Column(df, c))]
      IN  Ok(Table(df.cols,
                   [c \in ColSet(df) |-> IF c \in scaled THEN "num" ELSE df.dtype[c]],
                   [i \in DOMAIN df.rows |->
                       [c \in ColSet(df) |->
                           IF c \in scaled THEN MinMaxScale(df.rows[i][c], lo[c], hi[c])
                           ELSE df.rows[i][c]]]))

normalize_columns(df, columns) ==
    IF ~(columns \subseteq ColSet(df)) THEN Raise("KeyError")
    ELSE IF df.rows = << >> THEN Raise("ValueError")
    ELSE
      LET lo == [c \in columns |-> MinCell(Column(df, c))]
          hi == [c \in columns |-> MaxCell(Column(df, c))]
      IN  Ok(Table(df.cols,
                   [c \in ColSet(df) |-> IF c \in columns THEN "num" ELSE df.dtype[c]],
                   [i \in DOMAIN df.rows |->
                       [c \in ColSet(df) |->
                           IF c \in columns THEN MinMaxScale(df.rows[i][c], lo[c], hi[c])
                           ELSE df.rows[i][c]]]))

(***************************************************************************)
(* load_data, lines 296-311: the final coercion and the emptiness check.   *)
(***************************************************************************)
FinalVerification(df) == CoerceCols(df, ColSet(df) \ {"CDSCODE"})

(***************************************************************************)
(* validate_final_dataset.                                                 *)
(***************************************************************************)
required_columns == {"CDSCODE", "PERSD", "SMATH_Y2", "SELA_Y2", "HTCHSAL", "RALL"}

\* validate_final_dataset failing a table of fewer than 100 rows
validate_final_dataset_size_fails(df) ==
    IF \E i \in DOMAIN df.rows : HasNaN(df.rows[i]) THEN FALSE
    ELSE IF ~(required_columns \subseteq ColSet(df)) THEN FALSE
    ELSE NRows(df) >= 100

validate_final_dataset(df) ==
    IF \E i \in DOMAIN df.rows : HasNaN(df.rows[i]) THEN FALSE
    ELSE IF ~(required_columns \subseteq ColSet(df)) THEN FALSE
    ELSE TRUE

(***************************************************************************)
(* The input files.  A world is the working directory at entry, whether    *)
(* it has a 'data' subdirectory, and the five files.  File rows are built  *)
(* from a key field and the field of one value column of the table; the    *)
(* other fields of the row are fixed.                                      *)
(***************************************************************************)
MaxRows == 2

StdHeader(name) ==
    CASE name = "expenditure" ->
             <<"SARCYEAR", "C", "D", "S", "CDSCODE", "STEXP", "DSAL", "STSAL">>
      [] name = "salary" -> <<"SARCYEAR", "CDSCODE", "BTCHSAL", "MTCHSAL", "HTCHSAL">>
      [] name = "chronic_absence" -> <<"CDSCODE", "RALL", "RAA", "REL", "RSED">>
      [] name = "test_scores" ->
             <<"CDSCODE", "SELA_Y2", "SMATH_Y2", "DELA_Y2", "DMATH_Y2", "SARCYEAR">>
      [] name = "socioeconomic" -> <<"CDSCODE", "PEREL", "PERSD">>

\* the value column of each table whose field varies
Focus(name) ==
    CASE name = "expenditure" -> "DSAL"
      [] name = "salary" -> "BTCHSAL"
      [] name = "chronic_absence" -> "RALL"
      [] name = "test_scores" -> "SMATH_Y2"
      [] name = "socioeconomic" -> "PERSD"

FixedField(c) ==
    CASE c \in {"SARCYEAR"} -> "2020"
      [] c = "NOTES" -> "n/a"
      [] c = "ENROLL" -> "500"
      [] c \in {"C", "D", "S"} -> "1"
      [] OTHER -> "50"

FileRow(name, header, key, v) ==
    [c \in Range(header) |->
        IF Upper(c) = "CDSCODE" THEN key
        ELSE IF Upper(c) = Focus(name) THEN v
        ELSE FixedField(c)]

\* the five trailing lines of the expenditure and salary files
Footer(name, header) ==
    IF name \in {"expenditure", "salary"}
    THEN [i \in 1..5 |-> [c \in Range(header) |-> IF c = header[1] THEN "Source: CDE" ELSE ""]]
    ELSE << >>

\* kv: the sequence of <<key field, value field>> of the data rows
MkFile(name, header, kv) ==
    [exists |-> TRUE, parses |-> TRUE, header |-> header,
     rows |-> [i \in DOMAIN kv |-> FileRow(name, header, kv[i][1], kv[i][2])]
                \o Footer(name, header)]

ValueOfRow(i) == CASE i = 1 -> "100" [] i = 2 -> "200" [] i = 3 -> "300" [] OTHER -> "500"

\* data rows with the given keys and the values 100, 200, ...
Keyed(keys) == [i \in DOMAIN keys |-> <<keys[i], ValueOfRow(i)>>]

Baseline(name) == MkFile(name, StdHeader(name), Keyed(<<"1", "2">>))

SeqsUpTo(S, n) == UNION {[1..k -> S] : k \in 0..n}

Without(header, c) == SelectSeq(header, LAMBDA x : x # c)

Renamed(header, c, new) == [i \in DOMAIN header |-> IF header[i] = c THEN new ELSE header[i]]

World(start, dataDir, file) == [start |-> start, dataDir |-> dataDir, file |-> file]

Starts == {<<"repo", "src">>, <<"repo">>}

\* absent and malformed files, with and without the 'data' subdirectory
FaultWorlds ==
    {World(st, dd, [n \in Names |->
                      [Baseline(n) EXCEPT !.exists = n \notin missing, !.parses = n # bad]]) :
        st \in Starts, dd \in BOOLEAN, missing \in SUBSET Names, bad \in Names \cup {"none"}}

\* extra, absent and lower-case columns
HeaderVariants(name) ==
    LET h == StdHeader(name)
    IN  CASE name = "expenditure" ->
                 {h, Append(h, "NOTES"), Append(h, "ENROLL"), Without(h, "S"),
                  Without(h, "DSAL"), Renamed(h, "DSAL", "dsal"), Without(h, "CDSCODE")}
          [] name = "salary" -> {h, Append(h, "NOTES"), Without(h, "BTCHSAL")}
          [] name = "chronic_absence" -> {h, Without(h, "RAA"), Without(h, "RALL")}
          [] name = "test_scores" -> {h, Without(h, "SARCYEAR"), Without(h, "SMATH_Y2")}
          [] name = "socioeconomic" ->
                 {h, Without(h, "PEREL"), Renamed(h, "PERSD", "persd"), Without(h, "PERSD")}

\* the five files, one per dataset
Files(e, s, t, d, a) ==
    [n \in Names |->
        CASE n = "expenditure" -> e [] n = "salary" -> s [] n = "test_scores" -> t
          [] n = "socioeconomic" -> d [] n = "chronic_absence" -> a]

\* files of dataset name with the standard header and the data rows of each kv of kvs
FilesOf(name, kvs) == {MkFile(name, StdHeader(name), kv) : kv \in kvs}

SchemaWorlds ==
    {World(<<"repo", "src">>, FALSE,
           [n \in Names |-> MkFile(n, hv[n], Keyed(<<"1", "2">>))]) :
        hv \in {Files(e, s, t, d, a) :
                   e \in HeaderVariants("expenditure"), s \in HeaderVariants("salary"),
                   t \in HeaderVariants("test_scores"), d \in HeaderVariants("socioeconomic"),
                   a \in HeaderVariants("chronic_absence")}}

\* which schools each table lists, and how often: up to MaxRows rows in the
\* expenditure and salary files
KeyWorlds ==
    LET long  == {Keyed(ks) : ks \in SeqsUpTo({"1", "2"}, MaxRows)}
        short == {Keyed(ks) : ks \in {<<"1">>, <<"1", "2">>, <<"2">>}}
    IN  {World(<<"repo", "src">>, FALSE, Files(e, s, t, d, a)) :
            e \in FilesOf("expenditure", long), s \in FilesOf("salary", long),
            t \in FilesOf("test_scores", short), d \in FilesOf("socioeconomic", short),
            a \in FilesOf("chronic_absence", short)}

\* numeric identifiers, some zero or missing: one row per table, or three
\* rows in the expenditure file
NumericKeyWorlds ==
    LET one == {Keyed(<<k>>) : k \in {"0", "1", "2", ""}}
    IN  {World(<<"repo", "src">>, FALSE, Files(e, s, t, d, a)) :
            e \in FilesOf("expenditure",
                           one \cup {Keyed(<<"1", "3", "">>), Keyed(<<"1", "">>)}),
            s \in FilesOf("salary", one),
            t \in FilesOf("test_scores", one), d \in FilesOf("socioeconomic", one),
            a \in FilesOf("chronic_absence", one)}

\* text identifiers, some a placeholder token or missing: two rows per table
TextKeyWorlds ==
    LET two == {Keyed(<<k, "B">>) : k \in {"A", "--", "0", ""}}
    IN  {World(<<"repo", "src">>, FALSE, Files(e, s, t, d, a)) :
            e \in FilesOf("expenditure", two), s \in FilesOf("salary", two),
            t \in FilesOf("test_scores", two), d \in FilesOf("socioeconomic", two),
            a \in FilesOf("chronic_absence", two)}

\* the value fields: numbers, empty fields, placeholders and other text
ValueWorlds ==
    LET ev == {<<<<"1", v1>>, <<"2", v2>>, <<"3", "200">>>> :
                  v1 \in {"100", "300", "", "abc"}, v2 \in {"100", "300", "", "abc"}}
        sv == {<<<<"1", v1>>, <<"2", "200">>>> : v1 \in {"100", ""}}
        tv == {<<<<"1", v1>>, <<"2", v2>>>> :
                  v1 \in {"50", "0", "--", "abc"}, v2 \in {"50", "0", "--", "abc"}}
        dv == {<<<<"1", v1>>, <<"2", "30">>>> : v1 \in {"50", "", "abc"}}
        av == {<<<<"1", v1>>, <<"2", "5">>>> : v1 \in {"5", ""}}
    IN  {World(<<"repo", "src">>, FALSE, Files(e, s, t, d, a)) :
            e \in FilesOf("expenditure", ev), s \in FilesOf("salary", sv),
            t \in FilesOf("test_scores", tv), d \in FilesOf("socioeconomic", dv),
            a \in FilesOf("chronic_absence", av)}

\* the magnitudes to rescale: three expenditure rows (the second school
\* twice) and two salary rows, close and far apart
ScaleWorlds ==
    LET ev == {<<<<"1", v1>>, <<"2", v2>>, <<"2", v3>>>> :
                  v1 \in {"3", "100", "500"}, v2 \in {"3", "100", "500"},
                  v3 \in {"3", "100", "500"}}
        sv == {<<<<"1", v1>>, <<"2", v2>>>> :
                  v1 \in {"2", "5", "500"}, v2 \in {"2", "5", "500"}}
    IN  {World(<<"repo", "src">>, FALSE,
               Files(e, s, Baseline("test_scores"), Baseline("socioeconomic"),
                     Baseline("chronic_absence"))) :
            e \in FilesOf("expenditure", ev), s \in FilesOf("salary", sv)}

Worlds ==
    FaultWorlds \cup SchemaWorlds \cup KeyWorlds \cup NumericKeyWorlds
        \cup TextKeyWorlds \cup ValueWorlds \cup ScaleWorlds

(***************************************************************************)
(* load_data and the __main__ block, one step per stage.  pc is the stage  *)
(* about to run; ran lists the stages that have run; exc is the exception  *)
(* a stage raised and load_data caught; ret is what load_data returned;    *)
(* reduced keeps the five tables as clean_datasets returned them; rowlog   *)
(* holds the row counts merge_datasets logs.                               *)
(***************************************************************************)
NoTables == [n \in Names |-> EmptyTable]
NoExc == [kind |-> "", stage |-> ""]
Pending == [kind |-> "pending", table |-> EmptyTable]
None == [kind |-> "None", table |-> EmptyTable]
\* an exception leaving load_data (no path of load_data produces it)
Raised == [kind |-> "raised", table |-> EmptyTable]
Returned(t) == [kind |-> "table", table |-> t]
\* previous: what the previous call of load_data in this process returned
NoRun == [ret |-> Pending]

Init ==
    /\ fs \in Worlds
    /\ cwd = fs.start
    /\ pc = "load"
    /\ datasets = NoTables
    /\ reduced = NoTables
    /\ df_merged = EmptyTable
    /\ ret = Pending
    /\ exc = NoExc
    /\ ran = << >>
    /\ rowlog = << >>
    /\ valid = "unset"
    /\ previous = NoRun

\* load_data letting the exception of a stage pass to its caller
Caught_reraise(stage, kind) ==
    /\ exc' = [kind |-> kind, stage |-> stage]
    /\ ret' = Raised
    /\ pc' = "returned"

\* "except Exception as e: ... return None" of load_data
Caught(stage, kind) ==
    /\ exc' = [kind |-> kind, stage |-> stage]
    /\ ret' = None
    /\ pc' = "returned"

DoLoadRaw ==
    /\ pc = "load"
    /\ LET r == load_raw_datasets(fs, cwd)
       IN  /\ cwd' = r.cwd
           /\ ran' = Append(ran, "load")
           /\ IF r.err # ""
              THEN Caught("load", r.err) /\ UNCHANGED datasets
              ELSE datasets' = r.tables /\ pc' = "clean" /\ UNCHANGED <<exc, ret>>
    /\ UNCHANGED <<previous, fs, reduced, df_merged, rowlog, valid>>

\* a stage that maps the five tables to the five tables
TablesStage(stage, r, next) ==
    /\ pc = stage
    /\ ran' = Append(ran, stage)
    /\ IF r.err # ""
       THEN Caught(stage, r.err) /\ UNCHANGED datasets
       ELSE datasets' = r.tables /\ pc' = next /\ UNCHANGED <<exc, ret>>
    /\ reduced' = IF stage = "clean" /\ r.err = "" THEN r.tables ELSE reduced
    /\ UNCHANGED <<previous, fs, cwd, df_merged, rowlog, valid>>

DoClean == TablesStage("clean", clean_datasets(datasets), "missing")

DoHandleMissing == TablesStage("missing", handle_missing_values(datasets), "convert")

DoConvert == TablesStage("convert", convert_data_types(datasets), "merge")

DoMerge ==
    /\ pc = "merge"
    /\ ran' = Append(ran, "merge")
    /\ LET r == merge_datasets(datasets)
       IN  /\ rowlog' = r.log
           /\ IF r.err # ""
              THEN Caught("merge", r.err) /\ UNCHANGED df_merged
              ELSE df_merged' = r.table /\ pc' = "normalize" /\ UNCHANGED <<exc, ret>>
    /\ UNCHANGED <<previous, fs, cwd, datasets, reduced, valid>>

DoNormalize ==
    /\ pc = "normalize"
    /\ ran' = Append(ran, "normalize")
    /\ LET r == normalize_columns(df_merged, columns_to_normalize)
       IN  IF r.err # ""
           THEN Caught("normalize", r.err) /\ UNCHANGED df_merged
           ELSE df_merged' = r.table /\ pc' = "verify" /\ UNCHANGED <<exc, ret>>
    /\ UNCHANGED <<previous, fs, cwd, datasets, reduced, rowlog, valid>>

\* lines 296-311: coerce, return None for an empty table, else the table
DoFinalVerification ==
    /\ pc = "verify"
    /\ ran' = Append(ran, "verify")
    /\ df_merged' = FinalVerification(df_merged)
    /\ ret' = IF NRows(df_merged') = 0 THEN None ELSE Returned(df_merged')
    /\ pc' = "returned"
    /\ UNCHANGED <<previous, fs, cwd, datasets, reduced, exc, rowlog, valid>>

\* __main__: "if df is not None: validate_final_dataset(df)", else the
\* failure message
Main ==
    /\ pc = "returned"
    /\ IF ret.kind = "table"
       THEN /\ valid' = (IF validate_final_dataset(ret.table) THEN "True" ELSE "False")
            /\ ran' = Append(ran, "validate")
       ELSE UNCHANGED <<valid, ran>>
    /\ pc' = "exit"
    /\ UNCHANGED <<previous, fs, cwd, datasets, reduced, df_merged, ret, exc, rowlog>>

Next ==
    \/ DoLoadRaw
    \/ DoClean
    \/ DoHandleMissing
    \/ DoConvert
    \/ DoMerge
    \/ DoNormalize
    \/ DoFinalVerification
    \/ Main

Spec == Init /\ [][Next]_vars

(***************************************************************************)
(* Two calls of load_data, one after the other, in one process: the files  *)
(* stay as they are, the working directory is the one the first call left. *)
(***************************************************************************)
RunAgain ==
    /\ pc = "exit"
    /\ previous = NoRun
    /\ previous' = [ret |-> ret]
    /\ pc' = "load"
    /\ datasets' = NoTables
    /\ reduced' = NoTables
    /\ df_merged' = EmptyTable
    /\ ret' = Pending
    /\ exc' = NoExc
    /\ ran' = << >>
    /\ rowlog' = << >>
    /\ valid' = "unset"
    /\ UNCHANGED <<fs, cwd>>

RepeatNext ==
    \/ DoLoadRaw
    \/ DoClean
    \/ DoHandleMissing
    \/ DoConvert
    \/ DoMerge
    \/ DoNormalize
    \/ DoFinalVerification
    \/ Main
    \/ RunAgain

RepeatSpec == Init /\ [][RepeatNext]_vars

\* the binary64 number nearest to a / b, for whole numbers 0 <= a and 0 < b
F64Quot(a, b) ==
    LET t0 == MantissaBits - 1 + BitLen(b) - BitLen(a)
        q0 == BigDivMod(BigShl(BigOfInt(a), t0), b).q
        t  == IF BigBitLen(q0) < MantissaBits THEN t0 + 1 ELSE t0
        qr == BigDivMod(BigShl(BigOfInt(a), t), b)
    IN  IF a = 0 THEN F64Zero
        ELSE F64Next(qr.q, -t, 2 * qr.r > b \/ (2 * qr.r = b /\ BigIsOdd(qr.q)))

(***************************************************************************)
(* DMProject.py run as a script: it calls load_data, exits with status 1   *)
(* on None, and otherwise draws its charts from the table.  Of its         *)
(* statements only lines 136-146 assign into the table; the others read it.*)
(***************************************************************************)
\* pd.cut(v, bins=[0, 0.25, 0.5, 0.75, 1.0], include_lowest=True) of the
\* value n/den: the label of the bin, missing outside [0, 1]
SedCategory(n, den) ==
    IF n < 0 \/ n > den THEN NaN
    ELSE IF 4 * n <= den THEN Str("0-25%")
    ELSE IF 2 * n <= den THEN Str("25-50%")
    ELSE IF 4 * n <= 3 * den THEN Str("50-75%")
    ELSE Str("75-100%")

\* lines 136-146 on a table whose PERSD cells are whole numbers >= 0
AddSedColumns(df) ==
    LET percent == \E i \in DOMAIN df.rows : df.rows[i]["PERSD"].n > 1
        den     == IF percent THEN 100 ELSE 1
        cols    == df.cols \o <<"PERSD_normalized", "SED_Category">>
        norm(c) == IF percent THEN F64Quot(c.n, 100) ELSE c
    IN  Table(cols,
              [c \in Range(cols) |->
                  IF c = "PERSD_normalized" THEN "num"
                  ELSE IF c = "SED_Category" THEN "str" ELSE df.dtype[c]],
              [i \in DOMAIN df.rows |->
                  [c \in Range(cols) |->
                      IF c = "PERSD_normalized" THEN norm(df.rows[i]["PERSD"])
                      ELSE IF c = "SED_Category"
                           THEN SedCategory(df.rows[i]["PERSD"].n, den)
                           ELSE df.rows[i][c]]])

\* lines 22-24: "if df_merge is None: ... exit(1)"
DMProjectExit ==
    /\ pc = "returned"
    /\ ret = None
    /\ pc' = "exit(1)"
    /\ UNCHANGED <<previous, fs, cwd, datasets, reduced, df_merged, ret, exc, ran,
                   rowlog, valid>>

\* the __main__ block run to its end on the table load_data returned: the
\* table object df_merged gets the two columns, ret keeps the table as it
\* was returned
DMProjectMain ==
    /\ pc = "returned"
    /\ ret.kind = "table"
    /\ df_merged' = AddSedColumns(df_merged)
    /\ ran' = Append(ran, "charts")
    /\ pc' = "charts done"
    /\ UNCHANGED <<previous, fs, cwd, datasets, reduced, ret, exc, rowlog, valid>>

DMProjectNext ==
    \/ DoLoadRaw
    \/ DoClean
    \/ DoHandleMissing
    \/ DoConvert
    \/ DoMerge
    \/ DoNormalize
    \/ DoFinalVerification
    \/ DMProjectExit
    \/ DMProjectMain

DMProjectSpec == Init /\ [][DMProjectNext]_vars

(***************************************************************************)
(* The five tables joined in any order: the stages before the merge run as *)
(* in load_data, then the tables are joined in one of the 120 orders.      *)
(***************************************************************************)
\* the sequences that list every element of S once
Perms(S) == {p \in [1..Cardinality(S) -> S] : Range(p) = S}

\* schools listed once, twice or not at all; identifiers that are missing;
\* identifiers that are text in some files and numbers in others
JoinWorlds ==
    LET k(ks)   == MkFile("expenditure", StdHeader("expenditure"), Keyed(ks))
        f(n, K) == {MkFile(n, StdHeader(n), Keyed(ks)) : ks \in K}
        dup  == {Files(e, s, t, d, a) :
                    e \in f("expenditure", {<<"1">>, <<"1", "1">>, <<"1", "2">>}),
                    s \in f("salary", {<<"1">>, <<"1", "1">>, <<"1", "2">>}),
                    t \in f("test_scores", {<<"1">>, <<"1", "2">>}),
                    d \in f("socioeconomic", {<<"1">>, <<"2", "1">>}),
                    a \in f("chronic_absence", {<<"1", "2">>})}
        nan  == {Files(e, s, t, d, a) :
                    e \in f("expenditure", {<<"1">>, <<"">>}),
                    s \in f("salary", {<<"1">>, <<"">>}),
                    t \in f("test_scores", {<<"1">>, <<"">>}),
                    d \in f("socioeconomic", {<<"1">>}),
                    a \in f("chronic_absence", {<<"1">>, <<"">>})}
        text == {Files(e, s, t, d, a) :
                    e \in f("expenditure", {<<"1">>, <<"A", "B">>}),
                    s \in f("salary", {<<"1">>, <<"2">>, <<"A", "B">>}),
                    t \in f("test_scores", {<<"1">>, <<"A", "B">>}),
                    d \in f("socioeconomic", {<<"1">>, <<"A", "B">>}),
                    a \in f("chronic_absence", {<<"1">>, <<"A", "B">>})}
    IN  {World(<<"repo", "src">>, FALSE, file) : file \in dup \cup nan \cup text}

JoinOrderInit ==
    /\ fs \in JoinWorlds
    /\ cwd = fs.start
    /\ pc = "load"
    /\ datasets = NoTables
    /\ reduced = NoTables
    /\ df_merged = EmptyTable
    /\ ret = Pending
    /\ exc = NoExc
    /\ ran = << >>
    /\ rowlog = << >>
    /\ valid = "unset"
    /\ previous = NoRun

\* the joins and the dropna of merge_datasets, in some order of the tables
DoMergeInOrder ==
    /\ pc = "merge"
    /\ ran' = Append(ran, "merge")
    /\ \E order \in Perms(Names) :
          LET r == merge_in_order(datasets, order)
          IN  /\ df_merged' = r.table
              /\ exc' = IF r.err # "" THEN [kind |-> r.err, stage |-> "merge"] ELSE exc
    /\ pc' = "joined"
    /\ UNCHANGED <<previous, fs, cwd, datasets, reduced, ret, rowlog, valid>>

JoinOrderNext ==
    \/ DoLoadRaw
    \/ DoClean
    \/ DoHandleMissing
    \/ DoConvert
    \/ DoMergeInOrder

JoinOrderSpec == JoinOrderInit /\ [][JoinOrderNext]_vars

(***************************************************************************)
(* validate_final_dataset called on a table of any shape: the columns of   *)
(* the final table or some of them, few or many rows, with or without a    *)
(* missing value.                                                          *)
(***************************************************************************)
\* "if len(df) < 100" of validate_final_dataset
SizeThreshold == 100

FinalCols ==
    <<"CDSCODE", "DSAL", "STSAL", "BTCHSAL", "MTCHSAL", "HTCHSAL", "SELA_Y2",
      "SMATH_Y2", "DELA_Y2", "DMATH_Y2", "PERSD", "RALL", "REL", "RSED">>

\* the table with the columns cols and n rows of numbers, the cell of row
\* at.row (0 for none) and column at.col missing
ValidatorTable(cols, n, at) ==
    Table(cols,
          [c \in Range(cols) |-> "num"],
          [i \in 1..n |-> [c \in Range(cols) |->
              IF i = at.row /\ c = at.col THEN NaN
              ELSE IF c = "CDSCODE" THEN Num(i) ELSE Num(50)]])

ValidatorColumns ==
    {FinalCols, Append(FinalCols, "NOTES"), Without(FinalCols, "DSAL"), << >>}
        \cup {Without(FinalCols, c) : c \in required_columns}

ValidatorSizes == {0, 1, 2, SizeThreshold - 1, SizeThreshold, SizeThreshold + 1}

ValidatorTables ==
    {ValidatorTable(cols, n, [row |-> r, col |-> c]) :
        cols \in ValidatorColumns, n \in ValidatorSizes,
        r \in {0, 1, 2}, c \in {"PERSD", "REL"}}

ValidatorInit ==
    /\ fs = World(<<"repo", "src">>, FALSE, [n \in Names |-> Baseline(n)])
    /\ cwd = fs.start
    /\ pc = "validate"
    /\ datasets = NoTables
    /\ reduced = NoTables
    /\ df_merged \in ValidatorTables
    /\ ret = Pending
    /\ exc = NoExc
    /\ ran = << >>
    /\ rowlog = << >>
    /\ valid = "unset"
    /\ previous = NoRun

\* the call validate_final_dataset(df_merged)
CallValidate ==
    /\ pc = "validate"
    /\ valid' = (IF validate_final_dataset(df_merged) THEN "True" ELSE "False")
    /\ ran' = Append(ran, "validate")
    /\ pc' = "exit"
    /\ UNCHANGED <<previous, fs, cwd, datasets, reduced, df_merged, ret, exc, rowlog>>

ValidatorNext == CallValidate

ValidatorSpec == ValidatorInit /\ [][ValidatorNext]_vars

(***************************************************************************)
(* Properties.                                                             *)
(***************************************************************************)
Finished == pc \in {"returned", "exit"}

HasRun(stage) == stage \in Range(ran)

\* merge_datasets has returned a table
MergedOk == HasRun("merge") /\ exc.stage # "merge"

Keys(t) == {t.rows[i]["CDSCODE"] : i \in DOMAIN t.rows}

UniqueKeys(t) ==
    \A i, j \in DOMAIN t.rows : t.rows[i]["CDSCODE"] = t.rows[j]["CDSCODE"] => i = j

NonIncreasing(log) == \A k \in 1..(Len(log) - 1) : log[k + 1] <= log[k]

AllowList(name) ==
    CASE name = "expenditure" -> {"CDSCODE", "DSAL", "STSAL"}
      [] name = "salary" -> {"CDSCODE", "BTCHSAL", "MTCHSAL", "HTCHSAL"}
      [] name = "test_scores" -> {"CDSCODE", "SELA_Y2", "SMATH_Y2", "DELA_Y2", "DMATH_Y2"}
      [] name = "socioeconomic" -> {"CDSCODE", "PERSD"}
      [] name = "chronic_absence" -> {"CDSCODE", "RALL", "REL", "RSED"}

\* the upper-cased column names of the file of a dataset
FileCols(name) == {Upper(c) : c \in Range(fs.file[name].header)}

AnyAbsent == \E n \in Names : ~fs.file[n].exists

\* the first read that fails is the read of an absent file
AbsentFirst ==
    \E i \in DOMAIN ReadOrder :
        /\ ~fs.file[ReadOrder[i]].exists
        /\ \A j \in 1..(i - 1) : fs.file[ReadOrder[j]].exists /\ fs.file[ReadOrder[j]].parses

LoadFails == \E n \in Names : ~fs.file[n].exists \/ ~fs.file[n].parses

PipelineOrder ==
    <<"load", "clean", "missing", "convert", "merge", "normalize", "validate">>

C2_KeysInEveryReducedTable ==
    MergedOk =>
        \A i \in DOMAIN df_merged.rows :
            \A n \in Names : df_merged.rows[i]["CDSCODE"] \in Keys(reduced[n])

\* C3 (as claimed): for all inputs the table at the end of the pipeline has
\* at most as many rows as the smallest of the five reduced tables.
C3_RowCountAtMostSmallest ==
    (Finished /\ MergedOk) => \A n \in Names : NRows(df_merged) <= NRows(reduced[n])

\* C3 (amended): when CDSCODE is unique within each of the five tables as
\* they enter merge_datasets, the table at the end of the pipeline has at most
\* as many rows as the smallest of the five reduced tables.
C3_RowCountAtMostSmallest_UniqueKeys ==
    (Finished /\ MergedOk /\ \A n \in Names : UniqueKeys(datasets[n])) =>
        \A n \in Names : NRows(df_merged) <= NRows(reduced[n])

C3_Witness ==
    /\ Finished /\ MergedOk /\ ret.kind = "table"
    /\ \A n \in Names : UniqueKeys(datasets[n])
    /\ \E n \in Names : NRows(df_merged) = NRows(reduced[n])
    /\ \E n \in Names : NRows(df_merged) < NRows(reduced[n])

\* C4 (as claimed): the row counts of the running merged table (the
\* expenditure table, after each of the four joins, after the drop of rows
\* with missing values) never increase.
C4_RowCountNeverIncreases == NonIncreasing(rowlog)

\* C4 (amended): when CDSCODE is unique within each of the four joined-in
\* tables (salary, test scores, socioeconomic, chronic absence) as they enter
\* merge_datasets, the row count of the running merged table never increases
\* through the joins and the drop of rows with missing values.
C4_RowCountNeverIncreases_UniqueKeys ==
    (HasRun("merge") /\ \A k \in DOMAIN MergeOrder : UniqueKeys(datasets[MergeOrder[k]]))
        => NonIncreasing(rowlog)

C4_Witness ==
    /\ MergedOk
    /\ \A k \in DOMAIN MergeOrder : UniqueKeys(datasets[MergeOrder[k]])
    /\ ~UniqueKeys(datasets["expenditure"])
    /\ Len(rowlog) = 6
    /\ rowlog[6] >= 2

\* C5 (as claimed): when load_data returns the table, the stages Loader,
\* Reducer, Resolver, Type Normalizer, Merge Engine, Range Normalizer and
\* Validator have run exactly once each, in this order.
C5_ValidatorBeforeReturn ==
    (pc = "returned" /\ ret.kind = "table") =>
        SelectSeq(ran, LAMBDA st : st # "verify") = PipelineOrder

C7_EmptyResultDistinguishable ==
    (Finished /\ MergedOk /\ NRows(df_merged) = 0) => ret # None

\* C8: a stage that raises is the last stage to run and load_data returns
\* None; after a failed load of any of the five files no other stage has run
\* and no table has been built.
C8_FailedStageStopsRun ==
    /\ exc.stage # "" =>
          /\ Finished
          /\ ran # << >> /\ ran[Len(ran)] = exc.stage
          /\ ret = None
    /\ (LoadFails /\ HasRun("load")) =>
          /\ ran = <<"load">>
          /\ exc.stage = "load"
          /\ datasets = NoTables /\ reduced = NoTables /\ df_merged = EmptyTable

C8_Witness ==
    /\ pc = "exit"
    /\ exc = [kind |-> "ParserError", stage |-> "load"]
    /\ ran = <<"load">>

\* C9: after load_raw_datasets, by return or by raise, with or without a
\* 'data' subdirectory, the working directory is the one at entry.
C9_WorkingDirectoryRestored == HasRun("load") => cwd = fs.start

C9_Witness ==
    /\ HasRun("load") /\ fs.dataDir /\ exc.stage = "load" /\ cwd = fs.start

\* C10 (as claimed): when the files hold every allow-listed column,
\* clean_datasets raises nothing and each table it returns has exactly the
\* allow-listed columns, whatever other columns the files hold.
C10_ReducerKeepsAllowList ==
    (HasRun("clean") /\ \A n \in Names : AllowList(n) \subseteq FileCols(n)) =>
        /\ exc.stage # "clean"
        /\ \A n \in Names : ColSet(reduced[n]) = AllowList(n)

\* the value (non-identifier) columns the pipeline requires of a dataset
ValueCols(name) == AllowList(name) \ {"CDSCODE"}

\* a required value column is absent from a loaded table
ValueColumnAbsent ==
    HasRun("load") /\ exc.stage # "load" /\ \E n \in Names : ~(ValueCols(n) \subseteq FileCols(n))

\* C11 (as claimed): when a required value column is absent from one of the
\* five loaded tables, clean_datasets raises the schema error (KeyError), so
\* that clean_datasets is the last stage to run: handle_missing_values,
\* convert_data_types and merge_datasets do not run.
C11_MissingColumnFailsAtReducer ==
    (ValueColumnAbsent /\ HasRun("clean")) =>
        /\ exc = [kind |-> "KeyError", stage |-> "clean"]
        /\ ran = <<"load", "clean">>

\* convert_data_types has returned the five tables
ConvertedOk == HasRun("convert") /\ exc.stage \notin {"load", "clean", "missing", "convert"}

\* the text of the field of column c in the i-th data row of the file of a
\* dataset (the stages before the merge keep the rows and their order)
SourceField(name, i, c) ==
    LET f == fs.file[name]
        h == CHOOSE x \in Range(f.header) : Upper(x) = c
    IN  f.rows[i][h]

\* C12 (as claimed): when the merge starts, every test-score cell whose field
\* in the file was "--" or 0 is the missing marker, and no test-score cell is
\* the number zero.
C12_NoZeroTestScore ==
    ConvertedOk =>
        \A i \in DOMAIN datasets["test_scores"].rows :
            \A c \in NumericCols("test_scores") :
                LET cell == datasets["test_scores"].rows[i][c]
                IN  /\ SourceField("test_scores", i, c) \in {"--", "0"} => IsNaN(cell)
                    /\ cell # Num(0)

\* the i-th data row of the test-score file holds "--" in SMATH_Y2
PlaceholderMath(i) ==
    /\ "SMATH_Y2" \in FileCols("test_scores")
    /\ SourceField("test_scores", i, "SMATH_Y2") = "--"

\* row is made of the test-score record rec: it carries the record's cells in
\* the test-score columns
FromRecord(row, rec) == \A k \in DOMAIN TestScoreCols : row[TestScoreCols[k]] = rec[TestScoreCols[k]]

\* C13: when the i-th row of the test-score file holds "--" in SMATH_Y2,
\* the SMATH_Y2 of that row is the missing marker after handle_missing_values
\* and convert_data_types, and the table merge_datasets produces (and the
\* table at the end of the pipeline) has no row made of that record.
C13_PlaceholderRowDropped ==
    \A i \in DOMAIN fs.file["test_scores"].rows :
        PlaceholderMath(i) =>
            /\ ConvertedOk => IsNaN(datasets["test_scores"].rows[i]["SMATH_Y2"])
            /\ MergedOk =>
                  \A j \in DOMAIN df_merged.rows :
                      ~FromRecord(df_merged.rows[j], datasets["test_scores"].rows[i])

\* the first test-score record holds "--" and is dropped, the second one,
\* of another school, is in the returned table
C13_Witness ==
    /\ ret.kind = "table"
    /\ PlaceholderMath(1)
    /\ IsNaN(datasets["test_scores"].rows[1]["SMATH_Y2"])
    /\ datasets["test_scores"].rows[1]["CDSCODE"] \in Keys(datasets["expenditure"])
    /\ \E j \in DOMAIN df_merged.rows :
           FromRecord(df_merged.rows[j], datasets["test_scores"].rows[2])

\* handle_missing_values has returned the five tables
ResolvedOk == HasRun("missing")

\* the i-th data row of the socioeconomic file has an empty PERSD field
MissingPersd(i) ==
    /\ "PERSD" \in FileCols("socioeconomic")
    /\ SourceField("socioeconomic", i, "PERSD") = ""

\* the identifier fields of the file of a dataset
SourceKeys(name) ==
    IF "CDSCODE" \in FileCols(name)
    THEN {SourceField(name, i, "CDSCODE") : i \in DOMAIN fs.file[name].rows}
    ELSE {}

\* t has a row with identifier key, PERSD = 0
HasZeroPersdRow(t, key) ==
    \E j \in DOMAIN t.rows : t.rows[j]["CDSCODE"] = key /\ t.rows[j]["PERSD"] = Num(0)

\* C14 (as claimed): when the i-th row of the socioeconomic file has no
\* PERSD, handle_missing_values sets the PERSD of the row to 0, and when the
\* identifier of the row also occurs in the four other files, load_data
\* returns a table with a row of that identifier and PERSD = 0.
C14_MissingPersdRowSurvives ==
    \A i \in DOMAIN fs.file["socioeconomic"].rows :
        (ResolvedOk /\ MissingPersd(i)) =>
            /\ datasets["socioeconomic"].rows[i]["PERSD"] = Num(0)
            /\ ( /\ Finished
                 /\ SourceField("socioeconomic", i, "CDSCODE") # ""
                 /\ \A n \in Names :
                        SourceField("socioeconomic", i, "CDSCODE") \in SourceKeys(n) )
                 => /\ ret.kind = "table"
                    /\ HasZeroPersdRow(ret.table, datasets["socioeconomic"].rows[i]["CDSCODE"])

\* t has a row with identifier key and no missing value
HasCompleteRow(t, key) ==
    \E j \in DOMAIN t.rows : t.rows[j]["CDSCODE"] = key /\ ~HasNaN(t.rows[j])

\* C14 (amended): when the i-th row of the socioeconomic file has no PERSD,
\* handle_missing_values sets the PERSD of the row to 0, and when each of the
\* four other tables, as it enters merge_datasets, has a row with the
\* identifier of that row and no missing value, and merge_datasets does not
\* raise, load_data returns a table with a row of that identifier and
\* PERSD = 0.
C14_MissingPersdRowSurvives_Complete ==
    \A i \in DOMAIN fs.file["socioeconomic"].rows :
        (ResolvedOk /\ MissingPersd(i)) =>
            /\ datasets["socioeconomic"].rows[i]["PERSD"] = Num(0)
            /\ ( /\ Finished /\ MergedOk
                 /\ \A n \in Names :
                        HasCompleteRow(datasets[n], datasets["socioeconomic"].rows[i]["CDSCODE"]) )
                 => /\ ret.kind = "table"
                    /\ HasZeroPersdRow(ret.table, datasets["socioeconomic"].rows[i]["CDSCODE"])

\* the first school has no PERSD and is returned with PERSD = 0 next to the
\* second school with its own PERSD
C14_Witness ==
    /\ pc = "exit" /\ ret.kind = "table"
    /\ MissingPersd(1)
    /\ HasZeroPersdRow(ret.table, datasets["socioeconomic"].rows[1]["CDSCODE"])
    /\ \E j \in DOMAIN ret.table.rows : ret.table.rows[j]["PERSD"] # Num(0)

\* v is the mean of the numbers among the cells cs: v times their count is
\* their sum
IsMeanOfPresent(v, cs) ==
    LET present == SelectSeq(cs, IsNum)
    IN  /\ present # << >>
        /\ IsNum(v)
        /\ Rat(v.n * Len(present), v.d) = SumCells(present)

\* C15: in the expenditure and salary tables, each cell that is missing in a
\* column of numbers when handle_missing_values is called holds, when it
\* returns, the mean of the non-missing cells of that column over all rows
\* of the table as clean_datasets returned it (it stays missing when the
\* column has no non-missing cell); rows of schools that no other table
\* lists count in the mean.
C15_MeanFillOverSourceRows ==
    ResolvedOk =>
        \A n \in {"expenditure", "salary"} :
            \A i \in DOMAIN reduced[n].rows :
                \A c \in ColSet(reduced[n]) :
                    (reduced[n].dtype[c] = "num" /\ IsNaN(reduced[n].rows[i][c])) =>
                        IF \E k \in DOMAIN reduced[n].rows : IsNum(reduced[n].rows[k][c])
                        THEN IsMeanOfPresent(datasets[n].rows[i][c], Column(reduced[n], c))
                        ELSE IsNaN(datasets[n].rows[i][c])

\* DSAL [100, missing, 200] has become [100, 150, 200]; the third school is
\* in no other table
C15_Witness ==
    /\ ResolvedOk
    /\ "DSAL" \in ColSet(reduced["expenditure"])
    /\ NRows(reduced["expenditure"]) = 3
    /\ Column(reduced["expenditure"], "DSAL") = <<Num(100), NaN, Num(200)>>
    /\ Column(datasets["expenditure"], "DSAL") = <<Num(100), Num(150), Num(200)>>
    /\ \A n \in Names \ {"expenditure"} :
           datasets["expenditure"].rows[3]["CDSCODE"] \notin Keys(datasets[n])

NormalizedOk == HasRun("normalize") /\ exc.stage # "normalize"

\* the table merge_datasets returned (after its dropna), which
\* normalize_columns receives
MergedTable == merge_datasets(datasets).table

\* 0 <= v <= 1 for a binary64 number v >= 0
F64InUnit(v) == v = F64Zero \/ v = F64One \/ v.d < 1 - MantissaBits


\* C17 (as claimed): when normalize_columns has returned, in each listed
\* column every value v lies in [0, 1]; when the column is not constant over
\* the merged table (after its dropna), v is the quotient
\* (x - min) / (max - min) of the value x it replaces, as a binary64 number,
\* the rows holding the minimum hold exactly 0 and the rows holding the
\* maximum hold exactly 1.
C17_ScaledIntoUnitInterval ==
    NormalizedOk =>
        LET before == MergedTable
        IN  \A c \in columns_to_normalize :
                LET lo == MinCell(Column(before, c))
                    hi == MaxCell(Column(before, c))
                IN  \A i \in DOMAIN df_merged.rows :
                        LET v == df_merged.rows[i][c]
                            x == before.rows[i][c]
                        IN  /\ F64InUnit(v)
                            /\ lo # hi =>
                                   /\ v = F64Quot(x.n - lo.n, hi.n - lo.n)
                                   /\ x = lo => v = F64Zero
                                   /\ x = hi => v = F64One

\* every cell of column c of table t (of one row at least) holds the same number
ConstantColumn(t, c) ==
    /\ NRows(t) >= 1
    /\ \A i \in DOMAIN t.rows : IsNum(t.rows[i][c]) /\ t.rows[i][c] = t.rows[1][c]

\* C18: when a listed column is constant over the rows of the merged table,
\* normalize_columns does not raise and the column holds the number 0 (not
\* the missing marker) in every row of the table it returns.
C18_ConstantColumnToZero ==
    HasRun("normalize") =>
        LET before == MergedTable
        IN  \A c \in columns_to_normalize :
                ConstantColumn(before, c) =>
                    /\ exc.stage # "normalize"
                    /\ NRows(df_merged) = NRows(before)
                    /\ \A i \in DOMAIN df_merged.rows : df_merged.rows[i][c] = F64Zero

\* STSAL is 50 in both rows and becomes 0 in both, next to a DSAL that is
\* not constant
C18_Witness ==
    /\ ret.kind = "table" /\ NormalizedOk
    /\ Column(MergedTable, "STSAL") = <<Num(50), Num(50)>>
    /\ Column(df_merged, "STSAL") = <<F64Zero, F64Zero>>
    /\ ~ConstantColumn(MergedTable, "DSAL")

\* the columns of the merged table that the claim names as left alone
UnscaledCols ==
    {"CDSCODE", "SELA_Y2", "SMATH_Y2", "DELA_Y2", "DMATH_Y2", "PERSD", "RALL", "REL", "RSED"}

\* C19: the list load_data passes to normalize_columns is DSAL, STSAL,
\* BTCHSAL, MTCHSAL, HTCHSAL, and when normalize_columns returns, the table
\* has the columns and the number of rows of the table it received, and
\* every cell of every column outside the list (CDSCODE, the four test-score
\* columns, PERSD, RALL, REL, RSED among them) is the cell of the same row
\* of the table it received.
C19_OnlyListedColumnsChange ==
    /\ columns_to_normalize = {"DSAL", "STSAL", "BTCHSAL", "MTCHSAL", "HTCHSAL"}
    /\ pc = "verify" =>
          LET before == MergedTable
          IN  /\ df_merged.cols = before.cols
              /\ NRows(df_merged) = NRows(before)
              /\ UnscaledCols \subseteq ColSet(before) \ columns_to_normalize
              /\ \A c \in ColSet(before) \ columns_to_normalize :
                     /\ df_merged.dtype[c] = before.dtype[c]
                     /\ \A i \in DOMAIN before.rows : df_merged.rows[i][c] = before.rows[i][c]

\* two schools in order, DSAL rescaled, the other columns as before
C19_Witness ==
    /\ pc = "verify"
    /\ Column(df_merged, "CDSCODE") = <<Num(1), Num(2)>>
    /\ Column(MergedTable, "DSAL") = <<Num(100), Num(200)>>
    /\ Column(df_merged, "DSAL") = <<F64Zero, F64One>>
    /\ Column(df_merged, "PERSD") = <<Num(100), Num(200)>>
    /\ Column(df_merged, "SMATH_Y2") = Column(MergedTable, "SMATH_Y2")

\* the table validate_final_dataset was called on has a missing cell
AnyMissing(t) == \E i \in DOMAIN t.rows : \E c \in ColSet(t) : IsNaN(t.rows[i][c])

\* C20: validate_final_dataset returns False for a table with a missing
\* value in any column, False for a table without one of CDSCODE, PERSD,
\* SMATH_Y2, SELA_Y2, HTCHSAL, RALL, and True for every other table,
\* whether it has fewer than 100 rows or not.
C20_ValidatorVerdict ==
    HasRun("validate") =>
        LET t == IF ret.kind = "table" THEN ret.table ELSE df_merged
        IN  /\ AnyMissing(t) => valid = "False"
            /\ (\E c \in {"CDSCODE", "PERSD", "SMATH_Y2", "SELA_Y2", "HTCHSAL", "RALL"} :
                    c \notin ColSet(t)) => valid = "False"
            /\ ( /\ ~AnyMissing(t)
                 /\ {"CDSCODE", "PERSD", "SMATH_Y2", "SELA_Y2", "HTCHSAL", "RALL"}
                        \subseteq ColSet(t) ) => valid = "True"

\* a complete table of 99 rows has passed
C20_Witness ==
    /\ HasRun("validate")
    /\ NRows(df_merged) = SizeThreshold - 1
    /\ ~AnyMissing(df_merged)
    /\ required_columns \subseteq ColSet(df_merged)
    /\ valid = "True"

\* the reasons a value returned by validate_final_dataset carries: it
\* returns a bool ("-> bool", return False / return True), which carries
\* none; the reasons go to logger.warning only
ReasonsOf(result) == IF result \in {"True", "False"} THEN {} ELSE result.reasons

\* C21 (as claimed): when validate_final_dataset rejects a table, the value
\* it returns carries at least one reason for the failure next to the
\* verdict, and the table is the one it was given.
C21_RejectionCarriesReasons ==
    (HasRun("validate") /\ valid = "False") =>
        /\ ReasonsOf(valid) # {}
        /\ df_merged \in ValidatorTables

\* C22: of two calls of load_data in one process against the same files,
\* the second started in the working directory the first one left, the
\* second returns what the first returned: None both times, or tables with
\* the same columns, rows and values.
C22_SecondRunSameResult ==
    (previous # NoRun /\ Finished) => ret = previous.ret

\* both calls changed into the 'data' subdirectory and returned the table
C22_Witness ==
    /\ previous # NoRun /\ pc = "exit"
    /\ fs.dataDir
    /\ ret.kind = "table" /\ NRows(ret.table) = 2
    /\ previous.ret = ret

\* the set of rows of a table
RowSet(t) == Range(t.rows)

JoinedTable ==
    MergeFrom(datasets, datasets["expenditure"], 1,
              <<NRows(datasets["expenditure"])>>).table

\* C24: when merge_datasets has returned, its table holds exactly the rows
\* of the joined table without a missing value: no row of it has a missing
\* value, every row of it is a row of the joined table, it has as many rows
\* as the joined table has rows without a missing value, and the reported
\* count of dropped rows is the row count after the last join minus the row
\* count of the returned table.
C24_DropsExactlyIncompleteRows ==
    (pc = "normalize" /\ HasRun("merge")) =>
        LET joined   == JoinedTable
            complete == {i \in DOMAIN joined.rows : ~HasNaN(joined.rows[i])}
        IN  /\ \A i \in DOMAIN df_merged.rows : ~HasNaN(df_merged.rows[i])
            /\ RowSet(df_merged) = {joined.rows[i] : i \in complete}
            /\ NRows(df_merged) = Cardinality(complete)
            /\ rowlog[5] = NRows(joined)
            /\ merge_datasets(datasets).rows_dropped = rowlog[5] - NRows(df_merged)

\* a joined row with a missing value was dropped and a complete one kept
C24_Witness ==
    /\ pc = "normalize" /\ HasRun("merge")
    /\ AnyMissing(JoinedTable)
    /\ NRows(df_merged) >= 1
    /\ merge_datasets(datasets).rows_dropped >= 1

\* C25: when DMProject has run to its end, the table object it received
\* from load_data has the columns, rows and values it had when load_data
\* returned it.
C25_PresentationOnlyReads ==
    (pc = "charts done" /\ HasRun("charts")) => df_merged = ret.table

\* the five tables as load_raw_datasets returned them in this run
LoadedTables == load_raw_datasets(fs, fs.start).tables

\* C26: when the merge starts, every row of each of the five tables has the
\* CDSCODE that was loaded for it, a missing CDSCODE and a CDSCODE that is a
\* placeholder token ("--", "0") included.
C26_IdentifierUnchanged ==
    (pc = "merge" /\ previous = NoRun) =>
        \A name \in Names :
            /\ NRows(datasets[name]) = NRows(LoadedTables[name])
            /\ "CDSCODE" \in ColSet(datasets[name]) =>
                   \A i \in DOMAIN datasets[name].rows :
                       datasets[name].rows[i]["CDSCODE"]
                           = LoadedTables[name].rows[i]["CDSCODE"]

\* the value columns of the tables that handle_missing_values fills
FilledCols ==
    {<<"expenditure", "DSAL">>, <<"expenditure", "STSAL">>,
     <<"salary", "BTCHSAL">>, <<"salary", "MTCHSAL">>, <<"salary", "HTCHSAL">>}

\* C27: when the merge starts, every PERSD cell of the subgroup table holds
\* a number, and so does every cell of a value column of the expenditure
\* and salary tables that has at least one number.
C27_NoMissingInFilledTables ==
    (pc = "merge" /\ previous = NoRun) =>
        /\ \A i \in DOMAIN datasets["socioeconomic"].rows :
               IsNum(datasets["socioeconomic"].rows[i]["PERSD"])
        /\ \A tc \in FilledCols :
               LET cells == Column(datasets[tc[1]], tc[2])
               IN  (\E i \in DOMAIN cells : IsNum(cells[i]))
                       => \A i \in DOMAIN cells : IsNum(cells[i])

\* C28: load_data never raises to its caller: when it has finished it has
\* returned None or a table with at least one row, and it has returned
\* None whenever a stage raised.
C28_ReturnsNoneOrRows ==
    Finished =>
        /\ \/ ret = None
           \/ ret.kind = "table" /\ NRows(ret.table) >= 1
        /\ exc.stage # "" => ret = None

\* the joins left no school: the scaler raised on the empty table and
\* load_data returned None
C28_Witness ==
    /\ Finished
    /\ exc.stage = "normalize"
    /\ NRows(df_merged) = 0 /\ rowlog # << >> /\ rowlog[1] >= 1
    /\ ret = None

\* C29: if CDSCODE is unique within each of the five reduced tables, it is
\* unique in the table merge_datasets returns: at most one row per school.
C29_UniqueKeysGiveUniqueRows ==
    (pc = "normalize" /\ HasRun("merge") /\ previous = NoRun) =>
        ((\A name \in Names : UniqueKeys(reduced[name])) => UniqueKeys(df_merged))

\* C30: handle_missing_values changes only cells that are missing when it
\* is called: each table keeps its columns and its number of rows, every
\* cell that was not missing keeps its value in its row, and the test-score
\* and chronic-absence tables are the same after the call as before it.
C30_ResolverTouchesOnlyMissing ==
    (pc = "convert" /\ HasRun("missing") /\ previous = NoRun) =>
        /\ \A name \in Names :
               /\ datasets[name].cols = reduced[name].cols
               /\ NRows(datasets[name]) = NRows(reduced[name])
               /\ \A i \in DOMAIN reduced[name].rows : \A c \in ColSet(reduced[name]) :
                      ~IsNaN(reduced[name].rows[i][c])
                          => datasets[name].rows[i][c] = reduced[name].rows[i][c]
        /\ datasets["test_scores"] = reduced["test_scores"]
        /\ datasets["chronic_absence"] = reduced["chronic_absence"]

\* a missing expenditure cell was filled next to cells that were present,
\* and a missing test score was left missing
C30_Witness ==
    /\ pc = "convert" /\ HasRun("missing")
    /\ datasets["expenditure"] # reduced["expenditure"]
    /\ ~AnyMissing(datasets["expenditure"])
    /\ AnyMissing(datasets["test_scores"])

====
